---- MODULE Spec2Model ----
(***************************************************************************)
(* Model of search_data.py: the DuckDuckGo acquisition pipeline            *)
(* (search_duckduckgo), the robots.txt gate (can_crawl), the content       *)
(* fetcher with its format dispatch and extractors                         *)
(* (fetch_full_text_requests and the parse_ functions), and the scorer     *)
(* (get_relate_domain_score).                                              *)
(*                                                                         *)
(* Python strings are sequences of one-character strings, so that strip,   *)
(* split, lower, endswith, "in" and re.sub are computed, not assumed.      *)
(* None and "" are both the empty sequence (the code only tests their      *)
(* truthiness).  Scores are percentages (0..100 for 0.0..1.0).             *)
(***************************************************************************)
EXTENDS Integers, Sequences, FiniteSets, TLC

\* ------------------------------------------------------------------ bounds
MaxHits == 2
MaxPages == 2

\* ------------------------------------------------- Python string primitives
\* The characters \s matches among those the model's texts use.
Whitespace == {" ", "\n", "\t"}

\* str.strip() == "" ("not text.strip()")
IsBlank(s) == \A k \in 1..Len(s) : s[k] \in Whitespace

RECURSIVE LStrip(_)
LStrip(s) ==
    IF s # <<>> /\ Head(s) \in Whitespace THEN LStrip(Tail(s)) ELSE s

RECURSIVE RStrip(_)
RStrip(s) ==
    IF s # <<>> /\ s[Len(s)] \in Whitespace
    THEN RStrip(SubSeq(s, 1, Len(s) - 1))
    ELSE s

\* str.strip()
Strip(s) == RStrip(LStrip(s))

\* re.sub(r"\s+", " ", text)
RECURSIVE ReSubWs(_)
ReSubWs(s) ==
    IF s = <<>> THEN <<>>
    ELSE IF Head(s) \in Whitespace
         THEN <<" ">> \o ReSubWs(LStrip(Tail(s)))
         ELSE <<Head(s)>> \o ReSubWs(Tail(s))

\* re.sub(r"\s+", " ", text).strip()
Normalize(s) == Strip(ReSubWs(s))

\* sep.join(parts)
RECURSIVE Join(_, _)
Join(sep, parts) ==
    IF parts = <<>> THEN <<>>
    ELSE IF Len(parts) = 1 THEN parts[1]
    ELSE parts[1] \o sep \o Join(sep, Tail(parts))

\* str.split(sep) for a one-character separator: every occurrence splits,
\* so adjacent, leading and trailing separators give empty pieces.
RECURSIVE Split(_, _)
Split(s, sep) ==
    IF \E k \in 1..Len(s) : s[k] = sep
    THEN LET k == CHOOSE j \in 1..Len(s) :
                     s[j] = sep /\ \A m \in 1..(j - 1) : s[m] # sep
         IN  <<SubSeq(s, 1, k - 1)>> \o Split(SubSeq(s, k + 1, Len(s)), sep)
    ELSE <<s>>

UpperChars == <<"A", "B", "C", "D", "E", "F", "G", "H", "I", "J", "K", "L", "M",
                "N", "O", "P", "Q", "R", "S", "T", "U", "V", "W", "X", "Y", "Z">>
LowerChars == <<"a", "b", "c", "d", "e", "f", "g", "h", "i", "j", "k", "l", "m",
                "n", "o", "p", "q", "r", "s", "t", "u", "v", "w", "x", "y", "z">>

LowerChar(c) ==
    IF \E k \in 1..Len(UpperChars) : UpperChars[k] = c
    THEN LowerChars[CHOOSE k \in 1..Len(UpperChars) : UpperChars[k] = c]
    ELSE c

\* str.lower()
Lower(s) == [k \in 1..Len(s) |-> LowerChar(s[k])]

\* s.endswith(suffix)
EndsWith(s, suffix) ==
    /\ Len(suffix) <= Len(s)
    /\ SubSeq(s, Len(s) - Len(suffix) + 1, Len(s)) = suffix

\* re.search(pattern + "$", s) for a literal pattern: "$" matches at the end
\* of the string and just before a newline that ends the string.
ReSearchAtEnd(s, literal) ==
    EndsWith(s, literal) \/ EndsWith(s, literal \o <<"\n">>)

\* sub in s
Contains(s, sub) ==
    \E k \in 0..(Len(s) - Len(sub)) : SubSeq(s, k + 1, k + Len(sub)) = sub

\* ------------------------------------------------------------ literals
DotPdf == <<".", "p", "d", "f">>
ImageSuffixes == {<<".", "p", "n", "g">>, <<".", "j", "p", "g">>, <<".", "j", "p", "e", "g">>, <<".", "g", "i", "f">>, <<".", "b", "m", "p">>, <<".", "t", "i", "f">>}
StrPdf == <<"p", "d", "f">>
StrImage == <<"i", "m", "a", "g", "e">>
StrHtml == <<"h", "t", "m", "l">>
Space == " "
Newline == <<"\n">>

\* ------------------------------------------- the inputs the model draws
\* Label inputs typed at the prompt: "", "a", "a b", " a".
LabelInputs == {<<>>, <<"a">>, <<"a", " ", "b">>, <<" ", "a">>}

\* Queries typed at the prompt: " ", "q".
Queries == {<<" ">>, <<"q">>}

\* URLs handed to the fetcher.
UrlPdf == <<"e", ".", "c", "o", "/", "a", ".", "p", "d", "f">>
UrlPdfUpper == <<"e", ".", "c", "o", "/", "A", ".", "P", "D", "F">>
UrlPdfQuery == <<"e", ".", "c", "o", "/", "a", ".", "p", "d", "f", "?", "x">>
UrlPng == <<"e", ".", "c", "o", "/", "a", ".", "p", "n", "g">>
UrlJpegUpper == <<"e", ".", "c", "o", "/", "a", ".", "J", "P", "E", "G">>
UrlJpg == <<"e", ".", "c", "o", "/", "a", ".", "j", "p", "g">>
UrlTif == <<"e", ".", "c", "o", "/", "a", ".", "t", "i", "f">>
UrlNoDot == <<"e", ".", "c", "o", "/", "a", "p", "n", "g">>
UrlPngNewline == <<"e", ".", "c", "o", "/", "a", ".", "p", "n", "g", "\n">>
UrlPlain == <<"e", ".", "c", "o", "/", "b">>
Urls == {UrlPdf, UrlPdfUpper, UrlPdfQuery, UrlPng, UrlJpegUpper, UrlJpg,
         UrlTif, UrlNoDot, UrlPngNewline, UrlPlain}

\* Content-Type header values as sent by the server ("" = header absent).
ContentTypes == {<<>>,
                 <<"a", "p", "p", "l", "i", "c", "a", "t", "i", "o", "n", "/", "p", "d", "f">>,
                 <<"A", "p", "p", "l", "i", "c", "a", "t", "i", "o", "n", "/", "P", "D", "F">>,
                 <<"i", "m", "a", "g", "e", "/", "p", "n", "g">>,
                 <<"t", "e", "x", "t", "/", "h", "t", "m", "l">>,
                 <<"t", "e", "x", "t", "/", "p", "l", "a", "i", "n">>}

\* Raw texts as the extraction libraries hand them back.
RawNone == <<>>
RawSpaces == <<" ", "\n">>
RawA == <<"a">>
RawAB == <<" ", "a", " ", "\n", "\t", "b", " ">>
RawB == <<"b", "\n">>

\* One PDF page: its embedded text layer (page.extract_text(), None as <<>>),
\* what Tesseract reads off its raster, and whether Tesseract raises on it.
TextPage == [layer |-> RawAB, ocr |-> RawSpaces, ocrFails |-> FALSE]
BlankLayerPage == [layer |-> RawSpaces, ocr |-> RawAB, ocrFails |-> FALSE]
ScannedPage == [layer |-> RawNone, ocr |-> RawB, ocrFails |-> FALSE]
UnreadablePage == [layer |-> RawNone, ocr |-> RawA, ocrFails |-> TRUE]

Pages == {TextPage, BlankLayerPage, ScannedPage, UnreadablePage}

PageSeqs == UNION {[1..n -> Pages] : n \in 0..MaxPages}

\* One HTML element with its text.
NodesArticle == <<[tag |-> "p", text |-> RawAB],
                  [tag |-> "script", text |-> RawA],
                  [tag |-> "p", text |-> RawB]>>
NodesScriptOnly == <<[tag |-> "style", text |-> RawA],
                     [tag |-> "noscript", text |-> RawB]>>
NodesGarbage == <<[tag |-> "text", text |-> RawB]>>

\* A response body, as each library sees the same bytes: pdfplumber and
\* pdf2image (plumberFails, rasterFails, pages), PIL + Tesseract (imgFails,
\* imgOcr) and BeautifulSoup (htmlFails, nodes).  A library fed bytes of
\* another format raises; BeautifulSoup reads them as one garbage text node.
PdfBody(pf, rf, ps) ==
    [plumberFails |-> pf, rasterFails |-> rf, pages |-> ps,
     imgFails |-> TRUE, imgOcr |-> RawNone,
     htmlFails |-> FALSE, nodes |-> NodesGarbage]

ImageBody(failing, text) ==
    [plumberFails |-> TRUE, rasterFails |-> TRUE, pages |-> <<>>,
     imgFails |-> failing, imgOcr |-> text,
     htmlFails |-> FALSE, nodes |-> NodesGarbage]

HtmlBody(failing, ns) ==
    [plumberFails |-> TRUE, rasterFails |-> TRUE, pages |-> <<>>,
     imgFails |-> TRUE, imgOcr |-> RawNone,
     htmlFails |-> failing, nodes |-> ns]

Bodies ==
    {PdfBody(FALSE, FALSE, ps) : ps \in PageSeqs}
    \cup {PdfBody(TRUE, FALSE, <<ScannedPage>>), PdfBody(TRUE, TRUE, <<>>),
          PdfBody(FALSE, TRUE, <<BlankLayerPage>>)}
    \cup {ImageBody(FALSE, RawAB), ImageBody(FALSE, RawSpaces),
          ImageBody(TRUE, RawNone)}
    \cup {HtmlBody(FALSE, NodesArticle), HtmlBody(FALSE, NodesScriptOnly),
          HtmlBody(FALSE, <<>>), HtmlBody(TRUE, NodesArticle)}

\* What requests.get(url, ...) meets: an exception (net), or a response with
\* its status, Content-Type header and body; contentFails is resp.content
\* raising while the streamed body is read.
Failure(kind) ==
    [net |-> kind, status |-> 0, content_type |-> <<>>, contentFails |-> FALSE,
     body |-> HtmlBody(FALSE, <<>>)]

Reply(code, ct, cf, b) ==
    [net |-> "ok", status |-> code, content_type |-> ct, contentFails |-> cf,
     body |-> b]

Responses ==
    {Failure("connection_error"), Failure("timeout")}
    \cup {Reply(code, <<>>, FALSE, HtmlBody(FALSE, NodesArticle)) : code \in {404, 500}}
    \cup {Reply(200, ct, TRUE, HtmlBody(FALSE, NodesArticle)) : ct \in ContentTypes}
    \cup {Reply(200, ct, FALSE, b) : ct \in ContentTypes, b \in Bodies}

\* What the robots.txt request of can_crawl meets: whether tldextract finds
\* a registered domain, the request's fate, and, for a 200, whether the
\* rules parse and what is_allowed("*", url) answers.
RobotsEnv(d, n, code, pf, ok) ==
    [domain |-> d, net |-> n, status |-> code, parseFails |-> pf,
     is_allowed |-> ok]

RobotsEnvs ==
    {RobotsEnv(FALSE, "ok", 200, FALSE, FALSE),
     RobotsEnv(TRUE, "timeout", 0, FALSE, FALSE),
     RobotsEnv(TRUE, "ok", 404, FALSE, FALSE),
     RobotsEnv(TRUE, "ok", 200, TRUE, FALSE),
     RobotsEnv(TRUE, "ok", 200, FALSE, TRUE),
     RobotsEnv(TRUE, "ok", 200, FALSE, FALSE)}

\* The classifier's distribution over the two labels it is given, in percent.
OracleDists == {<<100, 0>>, <<30, 70>>}

\* ------------------------------------------------------------- the scorer
\* classifier(text, labels): the candidate labels sorted by descending score.
classifier(labels, dist) ==
    IF dist[1] >= dist[2]
    THEN [labels |-> labels, scores |-> dist]
    ELSE [labels |-> <<labels[2], labels[1]>>, scores |-> <<dist[2], dist[1]>>]

\* list.index(x): the first position of x.
Index(seq, x) ==
    CHOOSE k \in 1..Len(seq) : seq[k] = x /\ \A m \in 1..(k - 1) : seq[m] # x

\* Mutant: fewer than two labels are silently defaulted instead of raising.
get_relate_domain_score_defaulted(text, binary_labels, dist) ==
    IF IsBlank(text) \/ Len(Split(binary_labels, Space)) < 2
    THEN [raised |-> FALSE, value |-> 0, oracle |-> FALSE]
    ELSE LET target_labels == Split(binary_labels, Space)
             result == classifier(<<target_labels[1], target_labels[2]>>, dist)
         IN  [raised |-> FALSE,
              value |-> result.scores[Index(result.labels, target_labels[1])],
              oracle |-> TRUE]

\* Mutant: the empty-text short-circuit is missing.
get_relate_domain_score_no_shortcut(text, binary_labels, dist) ==
    LET target_labels == Split(binary_labels, Space)
    IN  IF Len(target_labels) >= 2
        THEN LET result == classifier(<<target_labels[1], target_labels[2]>>, dist)
             IN  [raised |-> FALSE,
                  value |-> result.scores[Index(result.labels, target_labels[1])],
                  oracle |-> TRUE]
        ELSE [raised |-> TRUE, value |-> 0, oracle |-> FALSE]

\* get_relate_domain_score(text, binary_labels), with the oracle's answer dist.
\* raised: ValueError; oracle: whether classifier was called.
get_relate_domain_score(text, binary_labels, dist) ==
    IF IsBlank(text)
    THEN [raised |-> FALSE, value |-> 0, oracle |-> FALSE]
    ELSE LET target_labels == Split(binary_labels, Space)
         IN  IF Len(target_labels) >= 2
             THEN LET labels == <<target_labels[1], target_labels[2]>>
                      result == classifier(labels, dist)
                      relation_idx == Index(result.labels, target_labels[1])
                  IN  [raised |-> FALSE, value |-> result.scores[relation_idx],
                       oracle |-> TRUE]
             ELSE [raised |-> TRUE, value |-> 0, oracle |-> FALSE]

\* --------------------------------------------------------- the crawl gate
\* The try block of can_crawl: the robots.txt request and its evaluation.
can_crawl_try(e) ==
    IF e.net # "ok" THEN [raised |-> TRUE, allowed |-> TRUE]
    ELSE IF e.status = 200
         THEN IF e.parseFails
              THEN [raised |-> TRUE, allowed |-> TRUE]
              ELSE [raised |-> FALSE, allowed |-> e.is_allowed]
         ELSE [raised |-> FALSE, allowed |-> TRUE]

\* Mutant: the except clause is missing, the request's exception propagates.
can_crawl_no_except(parser_available, e) ==
    IF ~parser_available \/ ~e.domain
    THEN [allowed |-> TRUE, requested |-> FALSE, raised |-> FALSE]
    ELSE [allowed |-> can_crawl_try(e).allowed, requested |-> TRUE,
          raised |-> can_crawl_try(e).raised]

\* Mutant: a robots.txt that is not served (status other than 200) denies.
can_crawl_fail_closed(parser_available, e) ==
    IF ~parser_available \/ ~e.domain
    THEN [allowed |-> TRUE, requested |-> FALSE, raised |-> FALSE]
    ELSE [allowed |-> IF e.net = "ok" /\ e.status # 200 THEN FALSE
                      ELSE can_crawl_try(e).allowed,
          requested |-> TRUE, raised |-> FALSE]

\* can_crawl(url): requested is whether the robots.txt GET was issued.
can_crawl(parser_available, e) ==
    IF ~parser_available
    THEN [allowed |-> TRUE, requested |-> FALSE, raised |-> FALSE]
    ELSE IF ~e.domain
         THEN [allowed |-> TRUE, requested |-> FALSE, raised |-> FALSE]
         ELSE LET r == can_crawl_try(e)
              IN  IF r.raised
                  THEN [allowed |-> TRUE, requested |-> TRUE, raised |-> FALSE]
                  ELSE [allowed |-> r.allowed, requested |-> TRUE,
                        raised |-> FALSE]

\* ---------------------------------------------------------- the extractors
NonEmpty(s) == s # <<>>

parse_pdf_with_pdfplumber(body) ==
    IF body.plumberFails THEN <<>>
    ELSE LET text_pages ==
                 SelectSeq([k \in 1..Len(body.pages) |-> body.pages[k].layer],
                           NonEmpty)
         IN  Normalize(Join(Newline, text_pages))

parse_pdf_with_ocr(body) ==
    IF body.rasterFails THEN <<>>
    ELSE LET ocr_texts ==
                 SelectSeq([k \in 1..Len(body.pages) |->
                               IF body.pages[k].ocrFails THEN <<>>
                               ELSE Normalize(body.pages[k].ocr)],
                           NonEmpty)
         IN  Join(Newline, ocr_texts)

parse_image_with_ocr(body) ==
    IF body.imgFails THEN <<>> ELSE Normalize(body.imgOcr)

Visible(node) == node.tag \notin {"script", "style", "noscript"}

parse_html(body) ==
    LET kept == SelectSeq(body.nodes, Visible)
        text == Join(Newline, [k \in 1..Len(kept) |-> kept[k].text])
    IN  Normalize(text)

\* ------------------------------------------------------------ the fetcher
\* Mutant: the image test comes before the PDF test.
Format_image_first(content_type, url) ==
    IF \/ Contains(content_type, StrImage)
       \/ \E suffix \in ImageSuffixes : ReSearchAtEnd(Lower(url), suffix)
    THEN "IMAGE"
    ELSE IF Contains(content_type, StrPdf) \/ EndsWith(Lower(url), DotPdf)
         THEN "PDF"
         ELSE IF Contains(content_type, StrHtml) THEN "HTML" ELSE "UNKNOWN"

\* The if/elif chain of fetch_full_text_requests over the lower-cased
\* Content-Type and the URL.
Format(content_type, url) ==
    IF Contains(content_type, StrPdf) \/ EndsWith(Lower(url), DotPdf)
    THEN "PDF"
    ELSE IF \/ Contains(content_type, StrImage)
            \/ \E suffix \in ImageSuffixes : ReSearchAtEnd(Lower(url), suffix)
         THEN "IMAGE"
         ELSE IF Contains(content_type, StrHtml) THEN "HTML" ELSE "UNKNOWN"

NoCall == [raised |-> FALSE, text |-> <<>>, fmt |-> "NONE", calls |-> <<>>,
           layer |-> <<>>]

\* Mutant: no OCR fallback.
pdf_branch_no_fallback(body) ==
    [NoCall EXCEPT !.fmt = "PDF", !.layer = parse_pdf_with_pdfplumber(body),
                   !.calls = <<"parse_pdf_with_pdfplumber">>,
                   !.text = parse_pdf_with_pdfplumber(body)]

\* The PDF branch: the text layer first, OCR when it is blank.
pdf_branch(body) ==
    LET text == parse_pdf_with_pdfplumber(body)
    IN  IF IsBlank(text)
        THEN [NoCall EXCEPT !.fmt = "PDF", !.layer = text,
                            !.calls = <<"parse_pdf_with_pdfplumber",
                                        "parse_pdf_with_ocr">>,
                            !.text = parse_pdf_with_ocr(body)]
        ELSE [NoCall EXCEPT !.fmt = "PDF", !.layer = text,
                            !.calls = <<"parse_pdf_with_pdfplumber">>,
                            !.text = text]

\* The try block of fetch_full_text_requests.
fetch_try(url, resp) ==
    IF resp.net # "ok" THEN [NoCall EXCEPT !.raised = TRUE]
    ELSE IF resp.status # 200 THEN NoCall
    ELSE IF resp.contentFails THEN [NoCall EXCEPT !.raised = TRUE]
    ELSE LET content_type == Lower(resp.content_type)
             fmt == Format(content_type, url)
         IN  CASE fmt = "PDF" -> pdf_branch(resp.body)
               [] fmt = "IMAGE" ->
                    [NoCall EXCEPT !.fmt = fmt,
                                   !.calls = <<"parse_image_with_ocr">>,
                                   !.text = parse_image_with_ocr(resp.body)]
               [] fmt = "HTML" ->
                    IF resp.body.htmlFails
                    THEN [NoCall EXCEPT !.fmt = fmt, !.raised = TRUE,
                                        !.calls = <<"parse_html">>]
                    ELSE [NoCall EXCEPT !.fmt = fmt,
                                        !.calls = <<"parse_html">>,
                                        !.text = parse_html(resp.body)]
               [] OTHER -> [NoCall EXCEPT !.fmt = fmt]

\* Mutant: the except clauses are missing.
fetch_full_text_requests_no_except(url, resp) == fetch_try(url, resp)

\* fetch_full_text_requests(url): both except clauses return "".
fetch_full_text_requests(url, resp) ==
    LET r == fetch_try(url, resp)
    IN  IF r.raised THEN [r EXCEPT !.raised = FALSE, !.text = <<>>] ELSE r

\* ------------------------------------------------------------- the state
VARIABLES
    ROBOTS_PARSER_AVAILABLE, \* whether the import of the rules parser succeeded
    query,                   \* main: the query typed at the prompt
    binary_labels,           \* main: the label input typed at the prompt
    max_results,             \* main: the number of results asked for
    pc,                      \* where the program is
    raw_results,             \* search_duckduckgo: the hits ddgs.text returned
    i,                       \* search_duckduckgo: the hit being processed (1-based)
    full_text,               \* search_duckduckgo: the text fetched for hit i
    results,                 \* search_duckduckgo: the records appended so far
    saved,                   \* main: what json.dump wrote to all_search_results.json
    error,                   \* the exception that ended the run, "" when none
    net,                     \* every network request issued so far, in order
    oracleCalls,             \* every text the classifier was invoked on, in order
    log,                     \* per hit taken: the gate's answer and the text fetched
    gateInfo,                \* the last can_crawl call: what it met, what it answered
    fetchInfo,               \* the last fetch_full_text_requests call, likewise
    scoreInfo                \* the last get_relate_domain_score call, likewise

vars == <<ROBOTS_PARSER_AVAILABLE, query, binary_labels, max_results, pc,
          raw_results, i, full_text, results, saved, error, net, oracleCalls,
          log, gateInfo, fetchInfo, scoreInfo>>

\* The hits the search collaborator may return (title, href, body).
HitPool == {[title |-> "t1", href |-> UrlPdf, body |-> "s1"],
            [title |-> "t2", href |-> UrlPlain, body |-> "s2"]}

HitSeqs(n) == UNION {[1..m -> HitPool] : m \in 0..n}

\* The responses the pipeline's target GETs meet; the direct call of the
\* fetcher (CallFetch) meets all of Responses.
SampleResponses ==
    {Failure("timeout"),
     Reply(404, <<>>, FALSE, HtmlBody(FALSE, NodesArticle)),
     Reply(200, <<"a", "p", "p", "l", "i", "c", "a", "t", "i", "o", "n", "/", "p", "d", "f">>,
           FALSE, PdfBody(FALSE, FALSE, <<TextPage>>)),
     Reply(200, <<>>, FALSE, PdfBody(FALSE, FALSE, <<ScannedPage, ScannedPage>>)),
     Reply(200, <<>>, FALSE, PdfBody(FALSE, FALSE, <<>>)),
     Reply(200, <<"t", "e", "x", "t", "/", "p", "l", "a", "i", "n">>,
           FALSE, HtmlBody(FALSE, NodesArticle)),
     Reply(200, <<"t", "e", "x", "t", "/", "h", "t", "m", "l">>,
           FALSE, HtmlBody(TRUE, NodesArticle))}

NoGate == [called |-> FALSE, env |-> RobotsEnv(FALSE, "ok", 0, FALSE, FALSE),
           out |-> [allowed |-> TRUE, requested |-> FALSE, raised |-> FALSE]]

NoFetch == [called |-> FALSE, url |-> <<>>, net |-> "ok", status |-> 0,
            content_type |-> <<>>, contentFails |-> FALSE,
            htmlFails |-> FALSE, out |-> NoCall]

NoScore == [called |-> FALSE, text |-> <<>>, labels |-> <<>>,
            out |-> [raised |-> FALSE, value |-> 0, oracle |-> FALSE]]

FetchRecord(url, resp, r) ==
    [called |-> TRUE, url |-> url, net |-> resp.net, status |-> resp.status,
     content_type |-> resp.content_type, contentFails |-> resp.contentFails,
     htmlFails |-> resp.body.htmlFails, out |-> r]

\* The loop's "if not full_text: continue".
Skipped_never(text) == FALSE

Skipped(text) == text = <<>>

Init ==
    /\ ROBOTS_PARSER_AVAILABLE \in BOOLEAN
    /\ query \in Queries
    /\ binary_labels \in LabelInputs
    /\ max_results = MaxHits
    /\ pc = "main"
    /\ raw_results = <<>>
    /\ i = 0
    /\ full_text = <<>>
    /\ results = <<>>
    /\ saved = <<>>
    /\ error = ""
    /\ net = <<>>
    /\ oracleCalls = <<>>
    /\ log = <<>>
    /\ gateInfo = NoGate
    /\ fetchInfo = NoFetch
    /\ scoreInfo = NoScore

\* main(), up to the call of search_duckduckgo.
Main ==
    /\ pc = "main"
    /\ pc' = IF IsBlank(query) THEN "exit" ELSE "search"
    /\ UNCHANGED <<ROBOTS_PARSER_AVAILABLE, query, binary_labels, max_results,
                   raw_results, i, full_text, results, saved, error, net,
                   oracleCalls, log, gateInfo, fetchInfo, scoreInfo>>

\* search_duckduckgo: ddgs.text(...) returns at most max_results hits.
Search ==
    /\ pc = "search"
    /\ \E hits \in HitSeqs(max_results) : raw_results' = hits
    /\ net' = Append(net, "search")
    /\ i' = 0
    /\ pc' = "loop"
    /\ UNCHANGED <<ROBOTS_PARSER_AVAILABLE, query, binary_labels, max_results,
                   full_text, results, saved, error, oracleCalls, log,
                   gateInfo, fetchInfo, scoreInfo>>

\* search_duckduckgo: ddgs.text(...) raises; nothing catches it.
SearchFails ==
    /\ pc = "search"
    /\ net' = Append(net, "search")
    /\ error' = "DuckDuckGoSearchException"
    /\ pc' = "raised"
    /\ UNCHANGED <<ROBOTS_PARSER_AVAILABLE, query, binary_labels, max_results,
                   raw_results, i, full_text, results, saved, oracleCalls, log,
                   gateInfo, fetchInfo, scoreInfo>>

\* The for loop takes the next hit.
NextHit ==
    /\ pc = "loop"
    /\ i < Len(raw_results)
    /\ i' = i + 1
    /\ full_text' = <<>>
    /\ gateInfo' = NoGate
    /\ fetchInfo' = NoFetch
    /\ scoreInfo' = NoScore
    /\ pc' = "gate"
    /\ UNCHANGED <<ROBOTS_PARSER_AVAILABLE, query, binary_labels, max_results,
                   raw_results, results, saved, error, net, oracleCalls, log>>

\* fetch_full_text: the can_crawl test; a denied URL gives full_text = ""
\* and the loop's "if not full_text: continue" skips the hit.
Gate ==
    /\ pc = "gate"
    /\ \E e \in RobotsEnvs :
         \E g \in {can_crawl(ROBOTS_PARSER_AVAILABLE, e)} :
             /\ gateInfo' = [called |-> TRUE, env |-> e, out |-> g]
             /\ net' = IF g.requested THEN Append(net, "robots") ELSE net
             /\ IF g.raised
                THEN /\ pc' = "raised"
                     /\ error' = "can_crawl"
                     /\ log' = log
                ELSE /\ pc' = IF g.allowed THEN "fetch"
                              ELSE IF Skipped(full_text) THEN "loop"
                              ELSE "score"
                     /\ error' = error
                     /\ log' = Append(log, [allowed |-> g.allowed,
                                            text |-> full_text])
    /\ UNCHANGED <<ROBOTS_PARSER_AVAILABLE, query, binary_labels, max_results,
                   raw_results, i, full_text, results, saved, oracleCalls,
                   fetchInfo, scoreInfo>>

\* fetch_full_text: the fetch_full_text_requests call (USE_SELENIUM is False),
\* then the loop's "if not full_text: continue".
Fetch ==
    /\ pc = "fetch"
    /\ \E resp \in SampleResponses :
         \E r \in {fetch_full_text_requests(raw_results[i].href, resp)} :
             /\ fetchInfo' = FetchRecord(raw_results[i].href, resp, r)
             /\ IF r.raised
                THEN /\ pc' = "raised"
                     /\ error' = "fetch_full_text_requests"
                     /\ full_text' = full_text
                     /\ log' = log
                ELSE /\ pc' = IF Skipped(r.text) THEN "loop" ELSE "score"
                     /\ error' = error
                     /\ full_text' = r.text
                     /\ log' = [log EXCEPT ![i].text = r.text]
    /\ net' = Append(net, "get")
    /\ gateInfo' = NoGate
    /\ UNCHANGED <<ROBOTS_PARSER_AVAILABLE, query, binary_labels, max_results,
                   raw_results, i, results, saved, oracleCalls, scoreInfo>>

\* The loop body after the fetch: score the text and append the record.
Score ==
    /\ pc = "score"
    /\ \E dist \in OracleDists :
         \E s \in {get_relate_domain_score(full_text, binary_labels, dist)},
            r \in {raw_results[i]} :
             /\ scoreInfo' = [called |-> TRUE, text |-> full_text,
                              labels |-> binary_labels, out |-> s]
             /\ oracleCalls' = IF s.oracle THEN Append(oracleCalls, full_text)
                               ELSE oracleCalls
             /\ IF s.raised
                THEN /\ pc' = "raised"
                     /\ error' = "ValueError"
                     /\ results' = results
                ELSE /\ pc' = "loop"
                     /\ error' = error
                     /\ results' = Append(results,
                            [title |-> r.title, link |-> r.href,
                             snippet |-> r.body, full_text |-> full_text,
                             academic_score |-> s.value])
    /\ fetchInfo' = NoFetch
    /\ UNCHANGED <<ROBOTS_PARSER_AVAILABLE, query, binary_labels, max_results,
                   raw_results, i, full_text, saved, net, log, gateInfo>>

\* search_duckduckgo: the loop is over, return results.
Return ==
    /\ pc = "loop"
    /\ i = Len(raw_results)
    /\ pc' = "returned"
    /\ gateInfo' = NoGate
    /\ fetchInfo' = NoFetch
    /\ scoreInfo' = NoScore
    /\ UNCHANGED <<ROBOTS_PARSER_AVAILABLE, query, binary_labels, max_results,
                   raw_results, i, full_text, results, saved, error, net,
                   oracleCalls, log>>

\* main(), after search_duckduckgo returned: json.dump unless results is empty.
MainSave ==
    /\ pc = "returned"
    /\ saved' = IF results = <<>> THEN saved ELSE results
    /\ pc' = "exit"
    /\ UNCHANGED <<ROBOTS_PARSER_AVAILABLE, query, binary_labels, max_results,
                   raw_results, i, full_text, results, error, net,
                   oracleCalls, log, gateInfo, fetchInfo, scoreInfo>>

\* A caller other than the pipeline calls fetch_full_text_requests(url).
CallFetch ==
    /\ pc = "main"
    /\ \E url \in Urls, resp \in Responses :
         fetchInfo' = FetchRecord(url, resp, fetch_full_text_requests(url, resp))
    /\ net' = Append(net, "get")
    /\ pc' = "called"
    /\ UNCHANGED <<ROBOTS_PARSER_AVAILABLE, query, binary_labels, max_results,
                   raw_results, i, full_text, results, saved, error,
                   oracleCalls, log, gateInfo, scoreInfo>>

\* A caller other than the pipeline calls get_relate_domain_score(text, labels).
ScoreTexts == {RawNone, RawSpaces, RawA, RawAB}

CallScore ==
    /\ pc = "main"
    /\ \E text \in ScoreTexts, dist \in OracleDists :
         \E s \in {get_relate_domain_score(text, binary_labels, dist)} :
             /\ scoreInfo' = [called |-> TRUE, text |-> text,
                              labels |-> binary_labels, out |-> s]
             /\ oracleCalls' = IF s.oracle THEN Append(oracleCalls, text)
                               ELSE oracleCalls
             /\ error' = IF s.raised THEN "ValueError" ELSE error
    /\ pc' = "called"
    /\ UNCHANGED <<ROBOTS_PARSER_AVAILABLE, query, binary_labels, max_results,
                   raw_results, i, full_text, results, saved, net, log,
                   gateInfo, fetchInfo>>

Next ==
    \/ Main
    \/ Search
    \/ SearchFails
    \/ NextHit
    \/ Gate
    \/ Fetch
    \/ Score
    \/ Return
    \/ MainSave
    \/ CallFetch
    \/ CallScore

Spec == Init /\ [][Next]_vars

\* ----------------------------------------------------------- properties
\* The label input splits into at least two entries.
TwoLabels(labels) == Len(Split(labels, Space)) >= 2

\* The hits taken so far, each with the gate's answer and the text fetched.
Processed ==
    [k \in 1..Len(log) |->
        [hit |-> raw_results[k], allowed |-> log[k].allowed, text |-> log[k].text]]

Survives(p) == p.allowed /\ p.text # <<>>

Kept == SelectSeq(Processed, Survives)

\* C1: when search_duckduckgo returns, results is exactly the hits whose
\* gate allowed the URL and whose fetch gave non-empty text, in input order:
\* one record per surviving hit with that hit's title, link, snippet and
\* text, no other record, every full_text non-empty, and no more records
\* than hits.
C1_ResultsAreSurvivingHits ==
    pc = "returned" =>
        /\ Len(log) = Len(raw_results)
        /\ Len(results) = Len(Kept)
        /\ Len(results) <= Len(raw_results)
        /\ \A k \in 1..Len(results) :
             /\ results[k].title = Kept[k].hit.title
             /\ results[k].link = Kept[k].hit.href
             /\ results[k].snippet = Kept[k].hit.body
             /\ results[k].full_text = Kept[k].text
             /\ results[k].full_text # <<>>

\* A run that returned one record for the second of two hits, the first
\* having been denied by the gate.
C1_Witness ==
    /\ pc = "returned"
    /\ Len(raw_results) = 2
    /\ ~log[1].allowed
    /\ Len(results) = 1
    /\ results[1].link = raw_results[2].href
    /\ raw_results[1].href # raw_results[2].href

\* C2: with fewer than two labels, the ValueError reaches the pipeline's
\* caller before any network request (search, robots.txt, target GET).
C2_ErrorBeforeNetwork ==
    (pc = "raised" /\ error = "ValueError") => net = <<>>

\* C3 as stated: with fewer than two label entries the scorer raises, for
\* every text, blank ones included.
C3_RaisesForEveryText ==
    (scoreInfo.called /\ ~TwoLabels(scoreInfo.labels)) => scoreInfo.out.raised

\* C3 amended: with fewer than two label entries the scorer raises, and
\* returns no score, for every text that is not blank; for a blank text it
\* returns 0.0 instead of raising.
C3_RaisesForNonBlankText ==
    (scoreInfo.called /\ ~TwoLabels(scoreInfo.labels)) =>
        IF IsBlank(scoreInfo.text)
        THEN ~scoreInfo.out.raised /\ scoreInfo.out.value = 0
        ELSE scoreInfo.out.raised /\ ~scoreInfo.out.oracle

C3_Witness ==
    /\ scoreInfo.called
    /\ ~TwoLabels(scoreInfo.labels)
    /\ ~IsBlank(scoreInfo.text)
    /\ scoreInfo.out.raised
    /\ pc = "called"

\* C4: with at least two labels, once the hits are in hand no hit ends the
\* run: no exception leaves the loop, the loop always has a next step until
\* it returns (each step moving on within a hit or to the next hit, so the
\* finitely many hits are exhausted), and at the return every hit has been
\* taken.
C4_PipelineCompletes ==
    TwoLabels(binary_labels) =>
        /\ (pc = "raised" => error = "DuckDuckGoSearchException")
        /\ (pc \in {"loop", "gate", "fetch", "score"} =>
               /\ error = ""
               /\ i <= Len(raw_results)
               /\ Len(log) \in {i - 1, i}
               /\ ENABLED Next)
        /\ (pc \in {"returned", "exit"} =>
               (error = "" /\ Len(log) = Len(raw_results)))

\* A returned run whose first hit's fetch failed and whose second hit gave
\* a record.
C4_Witness ==
    /\ pc = "returned"
    /\ TwoLabels(binary_labels)
    /\ Len(raw_results) = 2
    /\ log[1].allowed
    /\ log[1].text = <<>>
    /\ Len(results) = 1

\* C5: can_crawl never raises; it allows when the parser is unavailable,
\* when no registered domain is found, when the robots.txt request fails or
\* times out, when its status is not 200; it denies only on a 200 whose
\* parsed rules forbid the URL.
C5_GateFailsOpen ==
    gateInfo.called =>
        LET e == gateInfo.env
            g == gateInfo.out
        IN  /\ ~g.raised
            /\ (~ROBOTS_PARSER_AVAILABLE => g.allowed)
            /\ (~e.domain => g.allowed)
            /\ (e.net # "ok" => g.allowed)
            /\ (e.status # 200 => g.allowed)
            /\ (~g.allowed =>
                   /\ ROBOTS_PARSER_AVAILABLE
                   /\ e.domain
                   /\ e.net = "ok"
                   /\ e.status = 200
                   /\ ~e.parseFails
                   /\ ~e.is_allowed)

\* The robots.txt request was issued and timed out, and the gate allowed.
C5_Witness ==
    /\ gateInfo.called
    /\ ROBOTS_PARSER_AVAILABLE
    /\ gateInfo.env.domain
    /\ gateInfo.env.net = "timeout"
    /\ gateInfo.out.requested
    /\ gateInfo.out.allowed

C7_PdfFallback ==
    (fetchInfo.called /\ fetchInfo.out.fmt = "PDF") =>
        LET o == fetchInfo.out
            ocr == \E k \in 1..Len(o.calls) : o.calls[k] = "parse_pdf_with_ocr"
        IN  /\ o.calls # <<>>
            /\ o.calls[1] = "parse_pdf_with_pdfplumber"
            /\ \A k \in 2..Len(o.calls) : o.calls[k] = "parse_pdf_with_ocr"
            /\ ocr <=> IsBlank(o.layer)
            /\ (~IsBlank(o.layer) => o.text = o.layer)
            /\ ((o.text = <<>> /\ pc = "loop") =>
                   /\ Len(log) = i
                   /\ ~Survives(Processed[i])
                   /\ Len(results) = Len(Kept))

\* A pipeline hit served as PDF whose text layer and OCR both gave nothing.
C7_Witness ==
    /\ pc = "loop"
    /\ fetchInfo.called
    /\ fetchInfo.out.fmt = "PDF"
    /\ fetchInfo.out.calls = <<"parse_pdf_with_pdfplumber", "parse_pdf_with_ocr">>
    /\ fetchInfo.out.text = <<>>

\* The part of a URL before its query string and fragment.
UrlPath(url) ==
    IF \E k \in 1..Len(url) : url[k] \in {"?", "#"}
    THEN SubSeq(url, 1, (CHOOSE k \in 1..Len(url) :
                            /\ url[k] \in {"?", "#"}
                            /\ \A m \in 1..(k - 1) : url[m] \notin {"?", "#"}) - 1)
    ELSE url

\* Whether the fetch got as far as the format dispatch.
Dispatched(f) == f.called /\ f.net = "ok" /\ f.status = 200 /\ ~f.contentFails

\* The extractor calls that go with a format.
CallsMatch(o) ==
    /\ (o.fmt = "PDF" => o.calls # <<>> /\ o.calls[1] = "parse_pdf_with_pdfplumber")
    /\ (o.fmt = "IMAGE" => o.calls = <<"parse_image_with_ocr">>)
    /\ (o.fmt = "HTML" => o.calls = <<"parse_html">>)
    /\ (o.fmt = "UNKNOWN" => (o.calls = <<>> /\ o.text = <<>>))

\* The prioritised decision table over "is a PDF", "is an image", "is HTML".
Table(o, isPdf, isImage, isHtml) ==
    /\ (isPdf => o.fmt = "PDF")
    /\ ((~isPdf /\ isImage) => o.fmt = "IMAGE")
    /\ ((~isPdf /\ ~isImage /\ isHtml) => o.fmt = "HTML")
    /\ ((~isPdf /\ ~isImage /\ ~isHtml) => o.fmt = "UNKNOWN")
    /\ CallsMatch(o)

\* C8 as stated: PDF when the content type contains "pdf" or the URL's path
\* ends in ".pdf"; else IMAGE when the content type contains "image" or the
\* URL ends in an image suffix; else HTML when the content type contains
\* "html"; else UNKNOWN with empty text; case-insensitively.
C8_DispatchByUrlPath ==
    Dispatched(fetchInfo) =>
        LET ct == Lower(fetchInfo.content_type)
            u == Lower(fetchInfo.url)
        IN  Table(fetchInfo.out,
                  Contains(ct, StrPdf) \/ EndsWith(Lower(UrlPath(fetchInfo.url)), DotPdf),
                  Contains(ct, StrImage) \/ \E x \in ImageSuffixes : EndsWith(u, x),
                  Contains(ct, StrHtml))

\* C8 amended: the same table with the PDF suffix tested on the whole URL
\* string, query string and fragment included, and with an image suffix
\* also matching just before a newline that ends the URL string.
C8_DispatchByWholeUrl ==
    Dispatched(fetchInfo) =>
        LET ct == Lower(fetchInfo.content_type)
            u == Lower(fetchInfo.url)
        IN  Table(fetchInfo.out,
                  Contains(ct, StrPdf) \/ EndsWith(u, DotPdf),
                  \/ Contains(ct, StrImage)
                  \/ \E x \in ImageSuffixes :
                        EndsWith(u, x) \/ EndsWith(u, x \o Newline),
                  Contains(ct, StrHtml))

\* Content type image/png with a URL ending in ".PDF": dispatched as PDF.
C8_Witness ==
    /\ Dispatched(fetchInfo)
    /\ fetchInfo.url = UrlPdfUpper
    /\ Contains(Lower(fetchInfo.content_type), StrImage)
    /\ fetchInfo.out.fmt = "PDF"

\* C9: on a blank text the scorer returns 0.0 without raising and without
\* invoking the classifier, whatever the label input; the classifier is
\* only ever invoked on non-blank text, and the pipeline only scores
\* non-blank text.
C9_BlankTextScoresZero ==
    /\ (scoreInfo.called /\ IsBlank(scoreInfo.text)) =>
          /\ ~scoreInfo.out.raised
          /\ scoreInfo.out.value = 0
          /\ ~scoreInfo.out.oracle
    /\ \A k \in 1..Len(oracleCalls) : ~IsBlank(oracleCalls[k])
    /\ (pc = "score" => ~IsBlank(full_text))

\* The scorer was called on a whitespace-only text with a single label.
C9_Witness ==
    /\ scoreInfo.called
    /\ scoreInfo.text # <<>>
    /\ IsBlank(scoreInfo.text)
    /\ ~TwoLabels(scoreInfo.labels)
    /\ scoreInfo.out.value = 0

\* No leading or trailing whitespace, no whitespace but the space, no two
\* spaces in a row.
IsNormalized(s) ==
    /\ s # <<>> => (s[1] \notin Whitespace /\ s[Len(s)] \notin Whitespace)
    /\ \A k \in 1..Len(s) : s[k] \in Whitespace => s[k] = " "
    /\ \A k \in 1..(Len(s) - 1) : ~(s[k] = " " /\ s[k + 1] = " ")

\* C10: every text the fetcher returns is whitespace-normalized.
C10_FetchedTextNormalized ==
    fetchInfo.called => IsNormalized(fetchInfo.out.text)

====
